---- MODULE Spec2Model ----
(***************************************************************************)
(* One node of the replicated file-audit ledger (src/src/server.cpp): the  *)
(* audit admission and gossip pipeline (SubmitAudit, WhisperAuditRequest), *)
(* the block pipeline (ProposeBlock, CommitBlock, GetBlock) and the        *)
(* heartbeat and election endpoints (SendHeartbeat, TriggerElection,       *)
(* NotifyLeadership).                                                      *)
(*                                                                         *)
(* Byte strings (JSON payloads, hex digests, signatures) are sequences of  *)
(* string tokens, so that concatenation is \o and two byte strings are     *)
(* equal exactly when their token sequences are.                           *)
(***************************************************************************)
EXTENDS Integers, Sequences, FiniteSets, TLC

(***************************************************************************)
(* Bounds of the model.                                                    *)
(***************************************************************************)
\* SubmitAudit calls accepted in the whole cluster.
MaxSubmits == 1
\* Largest block id a proposer sends.
MaxId == 1

(***************************************************************************)
(* Configuration: the cluster and each node's peer list.                   *)
(***************************************************************************)
Nodes == {"n1", "n2", "n3"}

\* FileAuditServiceImpl::gossip_stubs_: one stub per configured peer, in
\* configuration order.
gossip_stubs_(n) ==
  CASE n = "n1" -> <<"n2", "n3">>
    [] n = "n2" -> <<"n1">>
    [] n = "n3" -> <<"n1">>

NumPeers(n) == Len(gossip_stubs_(n))

\* BlockChainServiceImpl::self_addr_: the node's own address.  An address is
\* the sequence of its bytes and "" is <<>>; n2 < n1 < n3 as std::string,
\* n1 being a proper prefix of n3.
self_addr_(n) ==
  CASE n = "n1" -> <<2>>
    [] n = "n2" -> <<1, 0>>
    [] n = "n3" -> <<2, 1>>

NoAddr == <<>>

\* The addresses a heartbeat's from_address can carry.
Addrs == {self_addr_(n) : n \in Nodes}

(***************************************************************************)
(* Audits, canonical encoding, signatures.                                 *)
(***************************************************************************)
ReqIds == {"r1", "r2"}

\* The key pair of the test client: the PEM text and the key it parses to.
ClientPem == "pem:K1"
ClientKey == "K1"

FileInfo == [file_id |-> "f1", file_name |-> "a.txt"]
UserInfo == [user_id |-> "u1", user_name |-> "alice"]

\* ordered_json j; j[...] = ...; j.dump(): the five signed fields in the
\* order the handlers insert them, no whitespace.
CanonicalPayload(a) ==
  << "access_type", a.access_type,
     "file_info", "file_id", a.file_info.file_id,
                  "file_name", a.file_info.file_name,
     "req_id", a.req_id,
     "timestamp", ToString(a.timestamp),
     "user_info", "user_id", a.user_info.user_id,
                  "user_name", a.user_info.user_name >>

\* The one raw signature that verifies over data under key.
RawSign(data, key) == <<"rsa-sha256", key>> \o data

\* The base64 text of raw bytes.
Base64Encode(raw) == <<"b64">> \o raw

\* Base64Decode: the decoded bytes, or no bytes when BIO_read fails.
Base64Decode(b64) ==
  IF Len(b64) > 0 /\ Head(b64) = "b64" THEN Tail(b64) ELSE <<>>

\* PEM_read_bio_PUBKEY: the key, or NULL for text that is no PEM key.
NoKey == "NULL"
PemReadPubkey(pem) == IF pem = ClientPem THEN ClientKey ELSE NoKey

\* A variant that accepts whatever decodes to a non-empty signature.
VerifySignature_lax(data, signature_b64, pubkey_pem) ==
  LET sig  == Base64Decode(signature_b64)
  IN  Len(sig) > 0

VerifySignature(data, signature_b64, pubkey_pem) ==
  LET sig  == Base64Decode(signature_b64)
      pkey == PemReadPubkey(pubkey_pem)
  IN  IF pkey = NoKey THEN FALSE
      ELSE sig = RawSign(data, pkey)

Unsigned(r, t) ==
  [req_id |-> r, timestamp |-> t, access_type |-> "read",
   file_info |-> FileInfo, user_info |-> UserInfo]

WithSig(u, sig, pem) ==
  [req_id |-> u.req_id, timestamp |-> u.timestamp,
   access_type |-> u.access_type, file_info |-> u.file_info,
   user_info |-> u.user_info, signature |-> sig, public_key |-> pem]

\* What the client produces: the audit signed over its canonical encoding.
Signed(r) ==
  WithSig(Unsigned(r, 1),
          Base64Encode(RawSign(CanonicalPayload(Unsigned(r, 1)), ClientKey)),
          ClientPem)

ValidAudits == {Signed(r) : r \in ReqIds}

\* Audits an honest client never produces: a field altered after signing, a
\* signature that is no base64, a public key that is no PEM.
ForgedAudits ==
  { WithSig(Unsigned("r1", 2), Signed("r1").signature, ClientPem),
    WithSig(Unsigned("r2", 1), <<"!">>, ClientPem),
    WithSig(Unsigned("r1", 1), Signed("r1").signature, "garbage") }

Audits == ValidAudits \cup ForgedAudits

(***************************************************************************)
(* Mempool (MempoolManager): pending audits keyed by req_id, kept in the   *)
(* order of first admission.                                               *)
(***************************************************************************)
PoolIds(pool) == {pool[i].req_id : i \in 1..Len(pool)}

\* MempoolManager::Append: a second append of a req_id is a no-op.
Mempool_Append(pool, a) ==
  IF a.req_id \in PoolIds(pool) THEN pool ELSE pool \o <<a>>

\* MempoolManager::RemoveBatch: drop every entry whose req_id is listed.
RemoveBatch(pool, ids) == SelectSeq(pool, LAMBDA a : a.req_id \notin ids)

\* MempoolManager::LoadAll: the snapshot, in admission order.
LoadAll(pool) == pool

BlockIds == 0..MaxId

(***************************************************************************)
(* State.                                                                  *)
(***************************************************************************)
VARIABLES
  mempool,    \* node -> the node's MempoolManager contents
  submit,     \* node -> the SubmitAudit handler running (or last run) there
  rpcCount,   \* node -> WhisperAuditRequest calls the node has issued
  accepted,   \* node -> SubmitAudit calls that passed verification there
  resp,       \* the response of the handler that ran in the last step, if any
  chain,      \* node -> the node's chain index (ChainManager): BlockMeta list
  blockFiles, \* node -> block id -> contents of ../blocks/block_<id>.json
  acked,      \* node -> block id -> the block CommitBlock last answered
              \*         "success" for under that id
  hb_table,   \* node -> from_address -> the node's HeartbeatTable entry
  leader,     \* node -> ElectionState leader address ("" is <<>>)
  voted_for,  \* node -> ElectionState voted_for address
  hbcall,     \* node -> the SendHeartbeat request whose handler stands
              \*         between its test of line 444 and line 445, if any
  notified,   \* node -> the address of the last NotifyLeadership there
  votes       \* candidate node -> voter node -> the vote of its round

chainVars == <<chain, blockFiles, acked>>

electVars == <<hb_table, leader, voted_for, hbcall, notified, votes>>

vars == <<mempool, submit, rpcCount, accepted, resp, chain, blockFiles, acked,
          hb_table, leader, voted_for, hbcall, notified, votes>>

\* Status of the gossip call to one peer inside SubmitAudit's loop.
Settled == {"ok", "failed", "timeout"}
InFlight == {"sent", "replied_ok", "replied_err"}

NoCalls(n) == [i \in 1..NumPeers(n) |-> "unissued"]

IdleSubmit(n) ==
  [pc |-> "idle", request |-> <<>>, calls |-> NoCalls(n),
   req_id |-> "", status |-> ""]

NoResp == [op |-> "none"]

RECURSIVE SumOver(_, _)
SumOver(f, S) ==
  IF S = {} THEN 0
  ELSE LET x == CHOOSE y \in S : TRUE IN f[x] + SumOver(f, S \ {x})

Init ==
  /\ mempool = [n \in Nodes |-> <<>>]
  /\ submit = [n \in Nodes |-> IdleSubmit(n)]
  /\ rpcCount = [n \in Nodes |-> 0]
  /\ accepted = [n \in Nodes |-> 0]
  /\ resp = NoResp
  /\ chain = [n \in Nodes |-> <<>>]
  /\ blockFiles = [n \in Nodes |-> [i \in BlockIds |-> <<>>]]
  /\ acked = [n \in Nodes |-> [i \in BlockIds |-> <<>>]]
  /\ hb_table = [n \in Nodes |-> [a \in Addrs |-> <<>>]]
  /\ leader = [n \in Nodes |-> NoAddr]
  /\ voted_for = [n \in Nodes |-> NoAddr]
  /\ hbcall = [n \in Nodes |-> <<>>]
  /\ notified = [n \in Nodes |-> NoAddr]
  /\ votes = [c \in Nodes |-> [v \in Nodes |-> <<>>]]

(***************************************************************************)
(* FileAuditServiceImpl::SubmitAudit.  The handler blocks in each outbound *)
(* WhisperAuditRequest, so it is a process: SubmitAudit runs it up to the  *)
(* gossip loop, GossipCall issues the call of one loop iteration, the call *)
(* settles by GossipReturn, GossipTimeout or GossipTransportError, and     *)
(* SubmitReply runs step 4.                                                *)
(***************************************************************************)
\* Lines 100-134: verify, then persist to the mempool.
SubmitAudit(n, a) ==
  /\ submit[n].pc # "gossip"
  /\ IF ~VerifySignature(CanonicalPayload(a), a.signature, a.public_key)
     THEN /\ resp' = [op |-> "SubmitAudit", audit |-> a,
                      code |-> "INVALID_ARGUMENT", status |-> ""]
          /\ UNCHANGED <<mempool, accepted, submit>>
     ELSE /\ SumOver(accepted, Nodes) < MaxSubmits
          /\ mempool' = [mempool EXCEPT ![n] = Mempool_Append(@, a)]
          /\ accepted' = [accepted EXCEPT ![n] = @ + 1]
          /\ submit' = [submit EXCEPT ![n] =
                 [pc |-> "gossip", request |-> <<a>>, calls |-> NoCalls(n),
                  req_id |-> "", status |-> ""]]
          /\ resp' = NoResp
  /\ UNCHANGED rpcCount
  /\ UNCHANGED <<chainVars, electVars>>

\* The loop iteration that may start next: the first peer not yet called.
NextPeer(n) ==
  IF \E i \in 1..NumPeers(n) : submit[n].calls[i] = "unissued"
  THEN CHOOSE i \in 1..NumPeers(n) :
         /\ submit[n].calls[i] = "unissued"
         /\ \A j \in 1..(i-1) : submit[n].calls[j] # "unissued"
  ELSE 0

\* A loop that hands every call to its own thread: no wait between calls.
MayIssue_concurrent(n, i) == TRUE

\* Line 146 is a blocking call inside the for loop of line 137: iteration i
\* starts when iteration i-1 has run to its end.
MayIssue(n, i) == \A j \in 1..(i-1) : submit[n].calls[j] \in Settled

\* Lines 137-146: stub->WhisperAuditRequest(&ctx2, *request, &wr) is sent.
GossipCall(n) ==
  /\ submit[n].pc = "gossip"
  /\ NextPeer(n) # 0
  /\ MayIssue(n, NextPeer(n))
  /\ submit' = [submit EXCEPT ![n].calls[NextPeer(n)] = "sent"]
  /\ rpcCount' = [rpcCount EXCEPT ![n] = @ + 1]
  /\ resp' = NoResp
  /\ UNCHANGED <<mempool, accepted>>
  /\ UNCHANGED <<chainVars, electVars>>

\* A handler that forwards what it admits to its own peers.
WhisperAuditRequest_regossip(p, a) ==
  /\ IF ~VerifySignature(CanonicalPayload(a), a.signature, a.public_key)
     THEN UNCHANGED <<mempool, rpcCount>>
     ELSE /\ mempool' = [mempool EXCEPT ![p] = Mempool_Append(@, a)]
          /\ rpcCount' = [rpcCount EXCEPT ![p] = @ + NumPeers(p)]
  /\ UNCHANGED accepted

\* A handler that stores what it verified without asking for the req_id.
WhisperAuditRequest_push(p, a) ==
  /\ IF ~VerifySignature(CanonicalPayload(a), a.signature, a.public_key)
     THEN UNCHANGED mempool
     ELSE mempool' = [mempool EXCEPT ![p] = @ \o <<a>>]
  /\ UNCHANGED <<rpcCount, accepted>>

\* BlockChainServiceImpl::WhisperAuditRequest, lines 184-235: what the
\* handler does to the node.
WhisperAuditRequest(p, a) ==
  /\ IF ~VerifySignature(CanonicalPayload(a), a.signature, a.public_key)
     THEN UNCHANGED mempool
     ELSE mempool' = [mempool EXCEPT ![p] = Mempool_Append(@, a)]
  /\ UNCHANGED <<rpcCount, accepted>>

\* Lines 212-234: what the handler returns.
WhisperResponse(a) ==
  IF ~VerifySignature(CanonicalPayload(a), a.signature, a.public_key)
  THEN [op |-> "WhisperAuditRequest", audit |-> a,
        code |-> "INVALID_ARGUMENT", status |-> ""]
  ELSE [op |-> "WhisperAuditRequest", audit |-> a,
        code |-> "OK", status |-> "success"]

\* The peer of call i of node n runs its handler; the reply is on its way.
GossipDeliver(n, i) ==
  /\ submit[n].pc = "gossip"
  /\ submit[n].calls[i] = "sent"
  /\ WhisperAuditRequest(gossip_stubs_(n)[i], submit[n].request[1])
  /\ submit' = [submit EXCEPT ![n].calls[i] =
                  IF WhisperResponse(submit[n].request[1]).code = "OK"
                  THEN "replied_ok" ELSE "replied_err"]
  /\ resp' = NoResp
  /\ UNCHANGED <<chainVars, electVars>>

\* A WhisperAuditRequest from a caller outside the cluster.  The calls of the
\* cluster's own nodes are GossipDeliver; they carry verified audits only,
\* so the outside caller is the one that sends the forged ones.
WhisperFromOutside(p, a) ==
  /\ WhisperAuditRequest(p, a)
  /\ resp' = WhisperResponse(a)
  /\ UNCHANGED submit
  /\ UNCHANGED <<chainVars, electVars>>

\* Lines 148-159: the call returned within its deadline; st.ok() or not.
GossipReturn(n, i) ==
  /\ submit[n].pc = "gossip"
  /\ submit[n].calls[i] \in {"replied_ok", "replied_err"}
  /\ submit' = [submit EXCEPT ![n].calls[i] =
                  IF submit[n].calls[i] = "replied_ok" THEN "ok" ELSE "failed"]
  /\ resp' = NoResp
  /\ UNCHANGED <<mempool, rpcCount, accepted>>
  /\ UNCHANGED <<chainVars, electVars>>

\* Lines 139-143, 149: the 200 ms deadline passed first (DEADLINE_EXCEEDED),
\* whether or not the peer has run its handler.
GossipTimeout(n, i) ==
  /\ submit[n].pc = "gossip"
  /\ submit[n].calls[i] \in InFlight
  /\ submit' = [submit EXCEPT ![n].calls[i] = "timeout"]
  /\ resp' = NoResp
  /\ UNCHANGED <<mempool, rpcCount, accepted>>
  /\ UNCHANGED <<chainVars, electVars>>

\* Lines 152-155: the transport failed before the peer saw the call.
GossipTransportError(n, i) ==
  /\ submit[n].pc = "gossip"
  /\ submit[n].calls[i] = "sent"
  /\ submit' = [submit EXCEPT ![n].calls[i] = "failed"]
  /\ resp' = NoResp
  /\ UNCHANGED <<mempool, rpcCount, accepted>>
  /\ UNCHANGED <<chainVars, electVars>>

\* A reply that reports a gossip failure to the client.
SubmitReply_strict(n) ==
  /\ submit[n].pc = "gossip"
  /\ \A i \in 1..NumPeers(n) : submit[n].calls[i] \in Settled
  /\ submit' = [submit EXCEPT ![n].pc = "done",
                              ![n].req_id = submit[n].request[1].req_id,
                              ![n].status =
                                IF \A i \in 1..NumPeers(n) :
                                     submit[n].calls[i] = "ok"
                                THEN "success" ELSE "failure"]
  /\ resp' = NoResp
  /\ UNCHANGED <<mempool, rpcCount, accepted>>
  /\ UNCHANGED <<chainVars, electVars>>

\* Lines 162-165: the loop is over; reply to the client.
SubmitReply(n) ==
  /\ submit[n].pc = "gossip"
  /\ \A i \in 1..NumPeers(n) : submit[n].calls[i] \in Settled
  /\ submit' = [submit EXCEPT ![n].pc = "done",
                              ![n].req_id = submit[n].request[1].req_id,
                              ![n].status = "success"]
  /\ resp' = NoResp
  /\ UNCHANGED <<mempool, rpcCount, accepted>>
  /\ UNCHANGED <<chainVars, electVars>>

NextGossip ==
  \/ \E n \in Nodes, a \in Audits : SubmitAudit(n, a)
  \/ \E n \in Nodes : GossipCall(n)
  \/ \E n \in Nodes : \E i \in 1..NumPeers(n) : GossipDeliver(n, i)
  \/ \E n \in Nodes : \E i \in 1..NumPeers(n) : GossipReturn(n, i)
  \/ \E n \in Nodes : \E i \in 1..NumPeers(n) : GossipTimeout(n, i)
  \/ \E n \in Nodes : \E i \in 1..NumPeers(n) : GossipTransportError(n, i)
  \/ \E n \in Nodes : SubmitReply(n)
  \/ \E p \in Nodes, a \in ForgedAudits : WhisperFromOutside(p, a)

SpecGossip == Init /\ [][NextGossip]_vars

(***************************************************************************)
(* Merkle engine (merkle_tree.h).                                          *)
(***************************************************************************)
\* SHA256Hex: the hex digest of a byte string, one digest per byte string.
SHA256Hex(bytes) == <<"sha256(">> \o bytes \o <<")">>

\* One level of the reduction: adjacent leaves are paired left to right, the
\* two hex texts concatenated and hashed; an odd last leaf pairs with itself.
MerkleLevel(level) ==
  [i \in 1..((Len(level) + 1) \div 2) |->
     SHA256Hex(level[2*i - 1] \o
               (IF 2*i <= Len(level) THEN level[2*i] ELSE level[2*i - 1]))]

\* ComputeMerkleRoot: no leaf gives the digest of the empty string, one leaf
\* is its own root.
RECURSIVE ComputeMerkleRoot(_)
ComputeMerkleRoot(leafs) ==
  IF Len(leafs) = 0 THEN SHA256Hex(<<>>)
  ELSE IF Len(leafs) = 1 THEN leafs[1]
  ELSE ComputeMerkleRoot(MerkleLevel(leafs))

\* ProposeBlock lines 243-258: one leaf per audit, the digest of its
\* canonical payload, in the block's order.
Leafs(audits) ==
  [i \in 1..Len(audits) |-> SHA256Hex(CanonicalPayload(audits[i]))]

(***************************************************************************)
(* Chain store (ChainManager): the index of BlockMeta entries.             *)
(***************************************************************************)
\* The previous_hash of block 0.
Genesis == "genesis"

getLastID(c) == IF Len(c) = 0 THEN -1 ELSE c[Len(c)].id

getLastHash(c) == IF Len(c) = 0 THEN Genesis ELSE c[Len(c)].hash

\* An index that takes whatever it is given.
append_unchecked(c, meta) == [ok |-> TRUE, chain |-> c \o <<meta>>]

\* ChainManager::append: rejects (ChainBroken) a meta that does not extend
\* the index, and leaves the index as it was.
append(c, meta) ==
  IF meta.previous_hash # getLastHash(c) \/ meta.id # getLastID(c) + 1
  THEN [ok |-> FALSE, chain |-> c]
  ELSE [ok |-> TRUE, chain |-> c \o <<meta>>]

(***************************************************************************)
(* Blocks and their JSON form (protobuf json_util).                        *)
(***************************************************************************)
\* MessageToJsonString: an object of the fields that differ from their
\* default, under their lowerCamelCase names; an int64 is a decimal string.
AuditToJson(a) ==
  LET fileInfo == [k \in {x \in {"fileId", "fileName"} :
                            (IF x = "fileId" THEN a.file_info.file_id
                             ELSE a.file_info.file_name) # ""} |->
                     IF k = "fileId" THEN a.file_info.file_id
                     ELSE a.file_info.file_name]
      userInfo == [k \in {x \in {"userId", "userName"} :
                            (IF x = "userId" THEN a.user_info.user_id
                             ELSE a.user_info.user_name) # ""} |->
                     IF k = "userId" THEN a.user_info.user_id
                     ELSE a.user_info.user_name]
      present ==
        {k \in {"reqId", "timestamp", "accessType", "fileInfo", "userInfo",
                "signature", "publicKey"} :
           CASE k = "reqId"      -> a.req_id # ""
             [] k = "timestamp"  -> a.timestamp # 0
             [] k = "accessType" -> a.access_type # ""
             [] k = "signature"  -> a.signature # <<>>
             [] k = "publicKey"  -> a.public_key # ""
             [] OTHER            -> TRUE}
  IN  [k \in present |->
         CASE k = "reqId"      -> a.req_id
           [] k = "timestamp"  -> ToString(a.timestamp)
           [] k = "accessType" -> a.access_type
           [] k = "fileInfo"   -> fileInfo
           [] k = "userInfo"   -> userInfo
           [] k = "signature"  -> a.signature
           [] k = "publicKey"  -> a.public_key]

BlockToJson(blk) ==
  LET present ==
        {k \in {"id", "previousHash", "merkleRoot", "hash", "audits"} :
           CASE k = "id"           -> blk.id # 0
             [] k = "previousHash" -> blk.previous_hash # ""
             [] k = "merkleRoot"   -> blk.merkle_root # <<>>
             [] k = "hash"         -> blk.hash # ""
             [] k = "audits"       -> Len(blk.audits) > 0}
  IN  [k \in present |->
         CASE k = "id"           -> ToString(blk.id)
           [] k = "previousHash" -> blk.previous_hash
           [] k = "merkleRoot"   -> blk.merkle_root
           [] k = "hash"         -> blk.hash
           [] k = "audits"       ->
                [i \in 1..Len(blk.audits) |-> AuditToJson(blk.audits[i])]]

\* The int64 a decimal string stands for.
ParseInt64(text) == CHOOSE v \in -1..(MaxId + 2) : ToString(v) = text

Field(obj, k, default) == IF k \in DOMAIN obj THEN obj[k] ELSE default

\* JsonStringToMessage: an absent field takes its default.
AuditFromJson(j) ==
  [req_id      |-> Field(j, "reqId", ""),
   timestamp   |-> IF "timestamp" \in DOMAIN j
                   THEN ParseInt64(j["timestamp"]) ELSE 0,
   access_type |-> Field(j, "accessType", ""),
   file_info   |-> [file_id   |-> Field(Field(j, "fileInfo", <<>>), "fileId", ""),
                    file_name |-> Field(Field(j, "fileInfo", <<>>), "fileName", "")],
   user_info   |-> [user_id   |-> Field(Field(j, "userInfo", <<>>), "userId", ""),
                    user_name |-> Field(Field(j, "userInfo", <<>>), "userName", "")],
   signature   |-> Field(j, "signature", <<>>),
   public_key  |-> Field(j, "publicKey", "")]

BlockFromJson(j) ==
  [id            |-> IF "id" \in DOMAIN j THEN ParseInt64(j["id"]) ELSE 0,
   previous_hash |-> Field(j, "previousHash", ""),
   merkle_root   |-> Field(j, "merkleRoot", <<>>),
   hash          |-> Field(j, "hash", ""),
   audits        |-> LET as == Field(j, "audits", <<>>)
                     IN  [i \in 1..Len(as) |-> AuditFromJson(as[i])]]

\* What JsonStringToMessage accepts as a Block.
JsonParses(j) ==
  DOMAIN j \subseteq {"id", "previousHash", "merkleRoot", "hash", "audits"}

(***************************************************************************)
(* The blocks a proposer may send.                                         *)
(***************************************************************************)
PrevHashes == {Genesis, "h1"}
BlockHashes == {"h1", "h2"}

A1 == Signed("r1")
A2 == Signed("r2")

\* Audit lists of the blocks sent to CommitBlock (a block that lists one of
\* the two audits a mempool may hold), and to ProposeBlock (no leaf, one
\* leaf, a pair in both orders, an odd level).
CommitAuditLists == {<<A1>>}
VoteAuditLists == {<<>>, <<A1>>, <<A1, A2>>, <<A2, A1>>, <<A1, A2, A1>>}

RootOf(audits) == ComputeMerkleRoot(Leafs(audits))

\* Blocks whose merkle_root the proposer computed from their audits.
CommitBlocks ==
  {[id |-> i, previous_hash |-> p, merkle_root |-> RootOf(as), hash |-> h,
    audits |-> as] :
     i \in BlockIds, p \in PrevHashes, h \in BlockHashes,
     as \in CommitAuditLists}

\* The blocks that extend the index one after the other.
ChainBlocks ==
  {b \in CommitBlocks :
     /\ b.hash = "h1"
     /\ b.previous_hash = IF b.id = 0 THEN Genesis ELSE "h1"}

\* Blocks with any of the roots, the right one or another list's.
VoteBlocks ==
  {[id |-> 1, previous_hash |-> p, merkle_root |-> m, hash |-> "h2",
    audits |-> as] :
     p \in PrevHashes \cup BlockHashes, as \in VoteAuditLists,
     m \in {RootOf(x) : x \in VoteAuditLists}}

\* Blocks as a faulty proposer may send them: the merkle_root is the root of
\* the block's audits or the root of another audit list.
AnyRootBlocks ==
  {[id |-> i, previous_hash |-> p, merkle_root |-> m, hash |-> "h1",
    audits |-> <<A1>>] :
     i \in BlockIds, p \in PrevHashes, m \in {RootOf(<<A1>>), RootOf(<<A2>>)}}

(***************************************************************************)
(* BlockChainServiceImpl: ProposeBlock, CommitBlock, GetBlock.             *)
(***************************************************************************)
\* A validator that looks at the chain linkage first.
ProposeBlock_prevfirst(n, blk) ==
  /\ resp' =
       IF blk.previous_hash # getLastHash(chain[n])
       THEN [op |-> "ProposeBlock", block |-> blk, vote |-> FALSE,
             status |-> "failure", error_message |-> "bad previous_hash"]
       ELSE IF ComputeMerkleRoot(Leafs(blk.audits)) # blk.merkle_root
       THEN [op |-> "ProposeBlock", block |-> blk, vote |-> FALSE,
             status |-> "failure", error_message |-> "bad merkle_root"]
       ELSE [op |-> "ProposeBlock", block |-> blk, vote |-> TRUE,
             status |-> "success", error_message |-> ""]
  /\ UNCHANGED <<mempool, submit, rpcCount, accepted, chainVars, electVars>>

\* Lines 237-314.
ProposeBlock(n, blk) ==
  /\ resp' =
       IF ComputeMerkleRoot(Leafs(blk.audits)) # blk.merkle_root
       THEN [op |-> "ProposeBlock", block |-> blk, vote |-> FALSE,
             status |-> "failure", error_message |-> "bad merkle_root"]
       ELSE IF blk.previous_hash # getLastHash(chain[n])
       THEN [op |-> "ProposeBlock", block |-> blk, vote |-> FALSE,
             status |-> "failure", error_message |-> "bad previous_hash"]
       ELSE [op |-> "ProposeBlock", block |-> blk, vote |-> TRUE,
             status |-> "success", error_message |-> ""]
  /\ UNCHANGED <<mempool, submit, rpcCount, accepted, chainVars, electVars>>

\* Lines 346-351.
BlockMeta(blk) ==
  [id |-> blk.id, hash |-> blk.hash, previous_hash |-> blk.previous_hash,
   merkle_root |-> blk.merkle_root]

\* What opening and writing ../blocks/block_<id>.json can come to.
IoOutcomes == {"written", "open_failed", "exception"}

\* A commit that leaves the mempool as it is.
CommitBlock_noprune(n, blk, io) ==
  /\ chain' = [chain EXCEPT ![n] = append(@, BlockMeta(blk)).chain]
  /\ UNCHANGED mempool
  /\ IF io = "written"
     THEN /\ blockFiles' = [blockFiles EXCEPT ![n][blk.id] = <<BlockToJson(blk)>>]
          /\ acked' = [acked EXCEPT ![n][blk.id] = <<blk>>]
          /\ resp' = [op |-> "CommitBlock", block |-> blk,
                      status |-> "success", error_message |-> ""]
     ELSE /\ UNCHANGED <<blockFiles, acked>>
          /\ resp' = [op |-> "CommitBlock", block |-> blk,
                      status |-> "failure",
                      error_message |-> "could not write block file"]
  /\ UNCHANGED <<submit, rpcCount, accepted, electVars>>

\* Lines 316-385.  The result of chain_.append (line 352) is not looked at.
\* io is what the file system does in step 6.
CommitBlock(n, blk, io) ==
  /\ chain' = [chain EXCEPT ![n] = append(@, BlockMeta(blk)).chain]
  /\ mempool' = [mempool EXCEPT ![n] =
        RemoveBatch(@, {blk.audits[i].req_id : i \in 1..Len(blk.audits)})]
  /\ IF io = "written"
     THEN /\ blockFiles' = [blockFiles EXCEPT ![n][blk.id] = <<BlockToJson(blk)>>]
          /\ acked' = [acked EXCEPT ![n][blk.id] = <<blk>>]
          /\ resp' = [op |-> "CommitBlock", block |-> blk,
                      status |-> "success", error_message |-> ""]
     ELSE /\ UNCHANGED <<blockFiles, acked>>
          /\ resp' = [op |-> "CommitBlock", block |-> blk,
                      status |-> "failure",
                      error_message |->
                        IF io = "open_failed"
                        THEN "could not write block file"
                        ELSE "exception writing block file"]
  /\ UNCHANGED <<submit, rpcCount, accepted, electVars>>

\* Lines 387-424.
GetBlock(n, id) ==
  /\ resp' =
       IF id > getLastID(chain[n])
       THEN [op |-> "GetBlock", id |-> id, status |-> "failure",
             error_message |-> "block id out of range", block |-> <<>>]
       ELSE IF id \notin BlockIds \/ blockFiles[n][id] = <<>>
       THEN [op |-> "GetBlock", id |-> id, status |-> "failure",
             error_message |-> "could not open block file", block |-> <<>>]
       ELSE IF ~JsonParses(blockFiles[n][id][1])
       THEN [op |-> "GetBlock", id |-> id, status |-> "failure",
             error_message |-> "JSON parse error", block |-> <<>>]
       ELSE [op |-> "GetBlock", id |-> id, status |-> "success",
             error_message |-> "",
             block |-> <<BlockFromJson(blockFiles[n][id][1])>>]
  /\ UNCHANGED <<mempool, submit, rpcCount, accepted, chainVars, electVars>>

\* The node whose BlockChainService endpoints the block claims are about.
\* A handler touches its own node's stores only.
Self == "n1"

\* A peer's gossip reaching the node: WhisperAuditRequest with an audit the
\* peer has verified.
WhisperFromPeer(p, a) ==
  /\ WhisperAuditRequest(p, a)
  /\ resp' = WhisperResponse(a)
  /\ UNCHANGED submit
  /\ UNCHANGED <<chainVars, electVars>>

NextChain ==
  \/ \E a \in ValidAudits : WhisperFromPeer(Self, a)
  \/ \E blk \in CommitBlocks, io \in IoOutcomes : CommitBlock(Self, blk, io)
  \/ \E id \in -1..(MaxId + 1) : GetBlock(Self, id)

SpecChain == Init /\ [][NextChain]_vars

NextVote ==
  \/ \E blk \in CommitBlocks : CommitBlock(Self, blk, "written")
  \/ \E blk \in VoteBlocks : ProposeBlock(Self, blk)

SpecVote == Init /\ [][NextVote]_vars

\* A node that is sent blocks with any merkle_root, to vote on and to commit.
NextCommit ==
  \/ \E blk \in AnyRootBlocks : ProposeBlock(Self, blk)
  \/ \E blk \in AnyRootBlocks, io \in IoOutcomes : CommitBlock(Self, blk, io)

SpecCommit == Init /\ [][NextCommit]_vars

\* The cluster's audit pipeline with a node that also commits: clients
\* submit signed audits anywhere, the gossip runs, and Self gets audits from
\* further peers and blocks to commit, in any interleaving.
NextPool ==
  \/ \E n \in Nodes, a \in ValidAudits : SubmitAudit(n, a)
  \/ \E n \in Nodes : GossipCall(n)
  \/ \E n \in Nodes : \E i \in 1..NumPeers(n) : GossipDeliver(n, i)
  \/ \E n \in Nodes : \E i \in 1..NumPeers(n) : GossipReturn(n, i)
  \/ \E n \in Nodes : \E i \in 1..NumPeers(n) : GossipTimeout(n, i)
  \/ \E n \in Nodes : \E i \in 1..NumPeers(n) : GossipTransportError(n, i)
  \/ \E n \in Nodes : SubmitReply(n)
  \/ \E a \in ValidAudits : WhisperFromPeer(Self, a)
  \/ \E blk \in {b \in ChainBlocks : b.id = 0} :
       CommitBlock(Self, blk, "written")

SpecPool == Init /\ [][NextPool]_vars

(***************************************************************************)
(* Heartbeat table (HeartbeatTable) and election state (ElectionState).    *)
(* last_seen_wallclock is read by no handler of server.cpp and is left out.*)
(***************************************************************************)
\* HeartbeatTable::update: overwrites the entry of from.
update(table, from, ldr, blk, pool) ==
  [table EXCEPT ![from] =
     <<[from_address |-> from, current_leader_address |-> ldr,
        latest_block_id |-> blk, mem_pool_size |-> pool]>>]

\* HeartbeatTable::all: the snapshot of the entries.
all(table) == {table[a][1] : a \in {x \in DOMAIN table : table[x] # <<>>}}

\* std::string operator>: bytewise lexicographic, a proper prefix is smaller.
RECURSIVE LexGreater(_, _)
LexGreater(a, b) ==
  IF Len(a) = 0 THEN FALSE
  ELSE IF Len(b) = 0 THEN TRUE
  ELSE IF Head(a) # Head(b) THEN Head(a) > Head(b)
  ELSE LexGreater(Tail(a), Tail(b))

(***************************************************************************)
(* BlockChainServiceImpl: SendHeartbeat, TriggerElection, NotifyLeadership.*)
(***************************************************************************)
\* A handler that takes the sender's leader whenever it names one.
SendHeartbeat_follow(n, req) ==
  /\ hbcall[n] = <<>>
  /\ hb_table' = [hb_table EXCEPT ![n] =
        update(@, req.from_address, req.current_leader_address,
               req.latest_block_id, req.mem_pool_size)]
  /\ IF req.current_leader_address # NoAddr
     THEN /\ hbcall' = [hbcall EXCEPT ![n] = <<req>>]
          /\ resp' = NoResp
     ELSE /\ UNCHANGED hbcall
          /\ resp' = [op |-> "SendHeartbeat", request |-> req,
                      status |-> "success"]
  /\ UNCHANGED <<leader, voted_for, notified, votes>>
  /\ UNCHANGED <<mempool, submit, rpcCount, accepted, chainVars>>

\* Lines 427-444: the table update and the test of line 444.  When the test
\* holds the handler stands before line 445 (one such handler per node at a
\* time); otherwise it runs to its end.
SendHeartbeat(n, req) ==
  /\ hbcall[n] = <<>>
  /\ hb_table' = [hb_table EXCEPT ![n] =
        update(@, req.from_address, req.current_leader_address,
               req.latest_block_id, req.mem_pool_size)]
  /\ IF leader[n] = NoAddr /\ req.current_leader_address # NoAddr
     THEN /\ hbcall' = [hbcall EXCEPT ![n] = <<req>>]
          /\ resp' = NoResp
     ELSE /\ UNCHANGED hbcall
          /\ resp' = [op |-> "SendHeartbeat", request |-> req,
                      status |-> "success"]
  /\ UNCHANGED <<leader, voted_for, notified, votes>>
  /\ UNCHANGED <<mempool, submit, rpcCount, accepted, chainVars>>

\* Lines 445-452: state_.setLeader(req->current_leader_address()), reply.
HeartbeatSetLeader(n) ==
  /\ hbcall[n] # <<>>
  /\ leader' = [leader EXCEPT ![n] = hbcall[n][1].current_leader_address]
  /\ hbcall' = [hbcall EXCEPT ![n] = <<>>]
  /\ resp' = [op |-> "SendHeartbeat", request |-> hbcall[n][1],
              status |-> "success"]
  /\ UNCHANGED <<hb_table, voted_for, notified, votes>>
  /\ UNCHANGED <<mempool, submit, rpcCount, accepted, chainVars>>

\* Lines 495-504.
NotifyLeadership(n, address) ==
  /\ leader' = [leader EXCEPT ![n] = address]
  /\ notified' = [notified EXCEPT ![n] = address]
  /\ resp' = [op |-> "NotifyLeadership", address |-> address,
              status |-> "success"]
  /\ UNCHANGED <<hb_table, voted_for, hbcall, votes>>
  /\ UNCHANGED <<mempool, submit, rpcCount, accepted, chainVars>>

\* A lookup that starts from the stats of an empty node.
CandStats_empty(table, candidate) ==
  IF \E e \in all(table) : e.from_address = candidate
  THEN LET e == CHOOSE x \in all(table) : x.from_address = candidate
       IN  <<e.latest_block_id, e.mem_pool_size>>
  ELSE <<-1, 0>>

\* Lines 464-472: <<cand_blocks, cand_pool>>, 0 and 0 unless the table has
\* an entry of the candidate.
CandStats(table, candidate) ==
  IF \E e \in all(table) : e.from_address = candidate
  THEN LET e == CHOOSE x \in all(table) : x.from_address = candidate
       IN  <<e.latest_block_id, e.mem_pool_size>>
  ELSE <<0, 0>>

\* A rule that looks at the pools without looking at the blocks.
vote_yes_pool(n, candidate) ==
  LET cand_blocks == CandStats(hb_table[n], candidate)[1]
      cand_pool   == CandStats(hb_table[n], candidate)[2]
      my_blocks   == getLastID(chain[n])
      my_pool     == Len(LoadAll(mempool[n]))
  IN  \/ cand_blocks > my_blocks
      \/ cand_pool > my_pool
      \/ (cand_blocks = my_blocks /\ cand_pool = my_pool /\
          LexGreater(candidate, self_addr_(n)))

\* Lines 474-482.
vote_yes(n, candidate) ==
  LET cand_blocks == CandStats(hb_table[n], candidate)[1]
      cand_pool   == CandStats(hb_table[n], candidate)[2]
      my_blocks   == getLastID(chain[n])
      my_pool     == Len(LoadAll(mempool[n]))
  IN  \/ cand_blocks > my_blocks
      \/ (cand_blocks = my_blocks /\ cand_pool > my_pool)
      \/ (cand_blocks = my_blocks /\ cand_pool = my_pool /\
          LexGreater(candidate, self_addr_(n)))

\* Lines 457-492: what the handler does to the node and what it returns.
TriggerElection(n, candidate) ==
  /\ voted_for' = IF vote_yes(n, candidate)
                  THEN [voted_for EXCEPT ![n] = candidate]
                  ELSE voted_for
  /\ resp' = [op |-> "TriggerElection", address |-> candidate,
              vote |-> vote_yes(n, candidate), term |-> 0,
              status |-> "success"]
  /\ UNCHANGED <<hb_table, leader, hbcall, notified>>
  /\ UNCHANGED <<mempool, submit, rpcCount, accepted, chainVars>>

\* A TriggerElection from a caller that keeps no tally.
ElectionCall(n, candidate) ==
  /\ TriggerElection(n, candidate)
  /\ UNCHANGED votes

\* The figures a heartbeat reports.
HbBlocks == {0, 1}
HbPools == {0, 1}

\* Heartbeats of the peers at election time: they name no leader.
Heartbeats ==
  {[from_address |-> self_addr_(p), current_leader_address |-> NoAddr,
    latest_block_id |-> b, mem_pool_size |-> k] :
     p \in Nodes \ {Self}, b \in HbBlocks, k \in HbPools}

\* A voter: its mempool fills and is pruned, its chain grows, heartbeats
\* come in and candidates ask for its vote.
NextElection ==
  \/ \E a \in ValidAudits : WhisperFromPeer(Self, a)
  \/ \E blk \in ChainBlocks : CommitBlock(Self, blk, "written")
  \/ \E req \in Heartbeats : SendHeartbeat(Self, req)
  \/ \E c \in Addrs : ElectionCall(Self, c)

SpecElection == Init /\ [][NextElection]_vars

(***************************************************************************)
(* The cluster at election time (spec 4.9, leader duties): nodes report    *)
(* their figures in heartbeats, and a candidate asks every peer for its    *)
(* vote and wins on a strict majority, its own vote counted as yes.        *)
(***************************************************************************)
\* What node s reports: its address, the leader it knows, its getLastID()
\* and its mempool size.
HeartbeatOf(s) ==
  [from_address |-> self_addr_(s), current_leader_address |-> leader[s],
   latest_block_id |-> getLastID(chain[s]),
   mem_pool_size |-> Len(LoadAll(mempool[s]))]

\* The heartbeat of s reaches its peer v (a later one with the same figures
\* would write the same entry again).
HeartbeatDeliver(s, v) ==
  /\ s # v
  /\ hb_table[v][self_addr_(s)] = <<>>
  /\ SendHeartbeat(v, HeartbeatOf(s))

\* Candidate c asks peer v, once in its round, and keeps the reply.
ElectionVote(c, v) ==
  /\ c # v
  /\ votes[c][v] = <<>>
  /\ TriggerElection(v, self_addr_(c))
  /\ votes' = [votes EXCEPT ![c][v] = <<resp'.vote>>]

RoundOver(c) == \A v \in Nodes \ {c} : votes[c][v] # <<>>

YesVotes(c) == 1 + Cardinality({v \in Nodes \ {c} : votes[c][v] = <<TRUE>>})

Wins(c) == RoundOver(c) /\ 2 * YesVotes(c) > Cardinality(Nodes)

\* Rounds in a cluster that has exchanged heartbeats: a voter is asked by a
\* candidate whose heartbeat it holds.
NextRound ==
  \/ \E s \in Nodes, v \in Nodes : HeartbeatDeliver(s, v)
  \/ \E c \in Nodes, v \in Nodes :
       /\ hb_table[v][self_addr_(c)] # <<>>
       /\ ElectionVote(c, v)

SpecRound == Init /\ [][NextRound]_vars

(***************************************************************************)
(* A node that hears of leaders: in heartbeats and by NotifyLeadership.    *)
(***************************************************************************)
\* Heartbeats that name no leader or name n2.
LeaderHeartbeats ==
  {[from_address |-> self_addr_(p), current_leader_address |-> l,
    latest_block_id |-> 0, mem_pool_size |-> k] :
     p \in Nodes \ {Self}, l \in {NoAddr, self_addr_("n2")}, k \in HbPools}

\* The addresses NotifyLeadership is called with: none, or n3.
NotifiedAddrs == {NoAddr, self_addr_("n3")}

\* No handler of the node is in the middle of its run.
Quiet(n) == hbcall[n] = <<>>

\* The calls reach the node one after the other: a handler starts when the
\* one before it has returned.
NextHeartbeat ==
  \/ Quiet(Self) /\ WhisperFromPeer(Self, A1)
  \/ \E blk \in {b \in ChainBlocks : b.id = 0} :
       Quiet(Self) /\ CommitBlock(Self, blk, "written")
  \/ \E req \in LeaderHeartbeats : SendHeartbeat(Self, req)
  \/ HeartbeatSetLeader(Self)
  \/ \E a \in NotifiedAddrs : Quiet(Self) /\ NotifyLeadership(Self, a)
  \/ \E c \in Addrs : Quiet(Self) /\ ElectionCall(Self, c)

SpecHeartbeat == Init /\ [][NextHeartbeat]_vars

\* The RPC server runs the handlers on a pool of threads: NotifyLeadership
\* and TriggerElection can run while a SendHeartbeat stands before line 445.
NextRace ==
  \/ \E req \in LeaderHeartbeats : SendHeartbeat(Self, req)
  \/ HeartbeatSetLeader(Self)
  \/ \E a \in NotifiedAddrs : NotifyLeadership(Self, a)
  \/ \E c \in Addrs : ElectionCall(Self, c)

SpecRace == Init /\ [][NextRace]_vars

(***************************************************************************)
(* Claims about admission and gossip, checked under SpecGossip.            *)
(***************************************************************************)
\* Signed by the client over exactly the fields the audit carries.  Stated
\* from the signing side, without the verifier.
GenuinelySigned(a) ==
  /\ a.public_key = ClientPem
  /\ a.signature =
       Base64Encode(RawSign(CanonicalPayload(
         [req_id |-> a.req_id, timestamp |-> a.timestamp,
          access_type |-> a.access_type, file_info |-> a.file_info,
          user_info |-> a.user_info]), ClientKey))

IssuedCalls(n) ==
  Cardinality({i \in 1..NumPeers(n) : submit[n].calls[i] # "unissued"})

OutstandingCalls(n) ==
  Cardinality({i \in 1..NumPeers(n) : submit[n].calls[i] \in InFlight})

Rejected(r) ==
  /\ r.op \in {"SubmitAudit", "WhisperAuditRequest"}
  /\ ~GenuinelySigned(r.audit)

\* C1: an audit whose signature does not verify over its canonical encoding
\* is refused by SubmitAudit and by WhisperAuditRequest with INVALID_ARGUMENT,
\* the refusing call changes no mempool and issues no gossip call, and so
\* every audit in every mempool carries a verifying signature.
C1_ForgedRefused ==
  /\ [](\A n \in Nodes : \A i \in 1..Len(mempool[n]) :
          GenuinelySigned(mempool[n][i]))
  /\ [](Rejected(resp) => resp.code = "INVALID_ARGUMENT")
  /\ [][Rejected(resp') =>
          /\ mempool' = mempool
          /\ rpcCount' = rpcCount
          /\ submit' = submit]_vars

\* A forged audit was refused at the gossip ingress while every node holds
\* an audit it admitted through SubmitAudit or WhisperAuditRequest.
C1_Witness ==
  /\ resp.op = "WhisperAuditRequest"
  /\ ~GenuinelySigned(resp.audit)
  /\ resp.code = "INVALID_ARGUMENT"
  /\ \A n \in Nodes : Len(mempool[n]) = 1

\* C2: gossip is one hop.  The calls a node has issued are those of its own
\* SubmitAudit loops, one per configured peer and accepted submission, so a
\* WhisperAuditRequest handler has issued none and no audit is forwarded twice.
C2_OneHop ==
  \A n \in Nodes :
    rpcCount[n] =
      IF submit[n].pc = "gossip"
      THEN NumPeers(n) * (accepted[n] - 1) + IssuedCalls(n)
      ELSE NumPeers(n) * accepted[n]

\* One SubmitAudit on n1 is over: both peers admitted the audit by
\* WhisperAuditRequest and the cluster saw exactly two calls.
C2_Witness ==
  /\ submit["n1"].pc = "done"
  /\ accepted = [n \in Nodes |-> IF n = "n1" THEN 1 ELSE 0]
  /\ SumOver(rpcCount, Nodes) = 2
  /\ \A p \in {"n2", "n3"} : Len(mempool[p]) = 1

\* C3: a SubmitAudit with a validly signed audit answers {req_id, "success"}
\* with the audit's req_id in the local mempool whatever the gossip calls
\* did, and a gossip call that fails or times out changes nothing on the
\* calling node but the call's own status.
C3_BestEffort ==
  /\ [](\A n \in Nodes : submit[n].pc = "done" =>
          /\ submit[n].status = "success"
          /\ submit[n].req_id = submit[n].request[1].req_id
          /\ submit[n].request[1].req_id \in PoolIds(mempool[n]))
  /\ [][\A n \in Nodes :
          (\E i \in 1..NumPeers(n) :
              /\ submit'[n].calls[i] \in {"failed", "timeout"}
              /\ submit[n].calls[i] \notin {"failed", "timeout"})
          => /\ mempool'[n] = mempool[n]
             /\ accepted'[n] = accepted[n]
             /\ rpcCount'[n] = rpcCount[n]
             /\ submit'[n].pc = submit[n].pc
             /\ submit'[n].request = submit[n].request]_vars

\* The client got "success" although one call timed out and one failed.
C3_Witness ==
  /\ submit["n1"].pc = "done"
  /\ submit["n1"].status = "success"
  /\ submit["n1"].calls = <<"timeout", "failed">>

\* C4 as claimed: a call is issued without waiting for another peer's call
\* to settle (while a peer is still uncalled the next call can be issued),
\* and the response comes only after every call has settled.
C4_Original ==
  \A n \in Nodes :
    /\ (submit[n].pc = "gossip" /\ NextPeer(n) # 0) => ENABLED GossipCall(n)
    /\ submit[n].pc = "done" =>
         \A i \in 1..NumPeers(n) : submit[n].calls[i] \in Settled

\* C4 as the code has it: the calls are issued one at a time in peer order,
\* each after the one before it has settled or timed out, and the response
\* comes only after every call has settled.
C4_Sequential ==
  \A n \in Nodes :
    /\ OutstandingCalls(n) <= 1
    /\ \A i \in 1..NumPeers(n) :
         submit[n].calls[i] # "unissued" =>
           \A j \in 1..(i-1) : submit[n].calls[j] \in Settled
    /\ submit[n].pc = "done" =>
         \A i \in 1..NumPeers(n) : submit[n].calls[i] \in Settled

\* The second peer's call is in flight, the first peer's has settled.
C4_Witness ==
  /\ submit["n1"].pc = "gossip"
  /\ submit["n1"].calls[1] \in Settled
  /\ submit["n1"].calls[2] \in InFlight

(***************************************************************************)
(* Claims about the block pipeline of one node, checked under SpecVote     *)
(* (C5) and SpecChain (C6 to C10).                                         *)
(***************************************************************************)
\* C5: ProposeBlock votes by the decision table: a merkle_root that differs
\* from the root recomputed from the audits gives vote=false, "failure",
\* "bad merkle_root", also when previous_hash is wrong too; else a
\* previous_hash that differs from getLastHash() gives vote=false, "failure",
\* "bad previous_hash"; otherwise vote=true, "success".
C5_VoteTable ==
  resp.op = "ProposeBlock" =>
    LET blk    == resp.block
        rootOk == blk.merkle_root = RootOf(blk.audits)
        prevOk == blk.previous_hash = getLastHash(chain[Self])
    IN  /\ ~rootOk =>
             /\ resp.vote = FALSE
             /\ resp.status = "failure"
             /\ resp.error_message = "bad merkle_root"
        /\ (rootOk /\ ~prevOk) =>
             /\ resp.vote = FALSE
             /\ resp.status = "failure"
             /\ resp.error_message = "bad previous_hash"
        /\ (rootOk /\ prevOk) =>
             /\ resp.vote = TRUE
             /\ resp.status = "success"

\* A block of three audits with both fields wrong, proposed to a node whose
\* chain is not empty, was refused for its merkle_root.
C5_Witness ==
  /\ resp.op = "ProposeBlock"
  /\ Len(chain[Self]) > 0
  /\ Len(resp.block.audits) = 3
  /\ resp.block.merkle_root # RootOf(resp.block.audits)
  /\ resp.block.previous_hash # getLastHash(chain[Self])
  /\ resp.error_message = "bad merkle_root"

\* The block of the response does not extend the index of the state before
\* the call: chain.append rejects its metadata.
AppendRejects(c, blk) ==
  \/ blk.previous_hash # getLastHash(c)
  \/ blk.id # getLastID(c) + 1

\* C6: CommitBlock returns status "failure" whenever chain.append rejects
\* the block's metadata (previous_hash differs from getLastHash() or id
\* differs from getLastID()+1).
C6_RejectedCommitFails ==
  [][(resp'.op = "CommitBlock" /\ AppendRejects(chain[Self], resp'.block))
       => resp'.status = "failure"]_vars

\* C7: when CommitBlock(B) returns success, no audit with a req_id listed in
\* B.audits is in the local mempool.
C7_Duality ==
  (resp.op = "CommitBlock" /\ resp.status = "success") =>
    \A i \in 1..Len(resp.block.audits) :
      resp.block.audits[i].req_id \notin PoolIds(mempool[Self])

\* A commit of <<A1>> succeeded on a node that extends its index to two
\* entries and keeps A2, which the block does not list, in its mempool.
C7_Witness ==
  /\ resp.op = "CommitBlock"
  /\ resp.status = "success"
  /\ resp.block.audits = <<A1>>
  /\ mempool[Self] = <<A2>>
  /\ Len(chain[Self]) = 2

\* C8: after any sequence of CommitBlock calls the chain index is contiguous
\* and strictly increasing in id from 0, and every entry's previous_hash is
\* the hash of the entry before it, the genesis constant for the first.
C8_ChainLinked ==
  \A i \in 1..Len(chain[Self]) :
    /\ chain[Self][i].id = i - 1
    /\ chain[Self][i].previous_hash =
         IF i = 1 THEN Genesis ELSE chain[Self][i - 1].hash

\* The index holds two entries and the last call was a CommitBlock whose
\* block did not extend it.
C8_Witness ==
  /\ Len(chain[Self]) = 2
  /\ resp.op = "CommitBlock"
  /\ resp.block.id = 0

\* C9: in every reachable state every id in the chain index has a block
\* body file.
C9_IndexHasBodies ==
  \A i \in 1..Len(chain[Self]) :
    blockFiles[Self][chain[Self][i].id] # <<>>

\* C10: a GetBlock(id) after CommitBlock(B), B.id = id, returned success
\* answers "success" with a block identical to B.
C10_GetAfterCommit ==
  (resp.op = "GetBlock" /\ resp.id \in BlockIds /\ acked[Self][resp.id] # <<>>)
    => /\ resp.status = "success"
       /\ resp.block = acked[Self][resp.id]

(***************************************************************************)
(* Claims about committed blocks, checked under SpecChain (C11, C17) and   *)
(* SpecCommit (C12).                                                       *)
(***************************************************************************)
\* The index entries of block id i.
IndexEntry(c, i) == {c[k] : k \in {j \in 1..Len(c) : c[j].id = i}}

\* Block id i is committed on node n: CommitBlock answered "success" for a
\* block under that id and the index holds that block's metadata.
Committed(n, i) ==
  /\ acked[n][i] # <<>>
  /\ BlockMeta(acked[n][i][1]) \in IndexEntry(chain[n], i)

\* C11: once CommitBlock(B) has returned success for id i on a node, no later
\* operation on the node, a CommitBlock that carries id i with other contents
\* included, changes the index entry for i or the body GetBlock(i) reads.
C11_Immutable ==
  [][\A i \in BlockIds :
       Committed(Self, i) =>
         /\ IndexEntry(chain'[Self], i) = IndexEntry(chain[Self], i)
         /\ blockFiles'[Self][i] = blockFiles[Self][i]]_vars

\* C12: every block a node has committed (index entry and body written by
\* CommitBlock) has the merkle_root that is the Merkle reduction of the
\* digests of its audits' canonical encodings in stored order, so no block
\* that ProposeBlock on the node rejects with "bad merkle_root" is committed
\* there.
C12_CommittedConsistent ==
  /\ \A i \in BlockIds :
       (Committed(Self, i) /\ blockFiles[Self][i] # <<>>) =>
         LET body == BlockFromJson(blockFiles[Self][i][1])
         IN  body.merkle_root =
               ComputeMerkleRoot([k \in 1..Len(body.audits) |->
                 SHA256Hex(CanonicalPayload(body.audits[k]))])
  /\ (resp.op = "ProposeBlock" /\ resp.error_message = "bad merkle_root") =>
       \A i \in BlockIds :
         ~(Committed(Self, i) /\ acked[Self][i] = <<resp.block>>)

(***************************************************************************)
(* Claims about the election, checked under SpecElection (C13, C20),       *)
(* SpecRound (C14), SpecHeartbeat (C15) and SpecRace (C19).                *)
(***************************************************************************)
\* The place of an address in the order of std::string: "10" < "2" < "21".
AddrRank(a) ==
  CASE a = <<1, 0>> -> 1
    [] a = <<2>>    -> 2
    [] a = <<2, 1>> -> 3

\* The vote rule of spec 4.9f on the candidate's and the voter's figures.
RuleSaysYes(cand_blocks, cand_pool, my_blocks, my_pool, cand, self) ==
  \/ cand_blocks > my_blocks
  \/ (cand_blocks = my_blocks /\ cand_pool > my_pool)
  \/ (cand_blocks = my_blocks /\ cand_pool = my_pool /\
      AddrRank(cand) > AddrRank(self))

\* C13: TriggerElection votes yes exactly when the rule says so on the
\* candidate's heartbeat-table entry and the voter's getLastID() and mempool
\* size; voted_for becomes the candidate exactly on a yes vote and is left as
\* it was on a no vote; term is always 0.
C13_VoteRule ==
  /\ [](resp.op = "TriggerElection" =>
          /\ resp.term = 0
          /\ hb_table[Self][resp.address] # <<>> =>
               resp.vote =
                 RuleSaysYes(hb_table[Self][resp.address][1].latest_block_id,
                             hb_table[Self][resp.address][1].mem_pool_size,
                             getLastID(chain[Self]), Len(mempool[Self]),
                             resp.address, self_addr_(Self)))
  /\ [][resp'.op = "TriggerElection" =>
          voted_for'[Self] = IF resp'.vote THEN resp'.address
                             ELSE voted_for[Self]]_vars

\* The voter holds one block and one audit, the candidate's entry reports
\* the same, and the larger address got the vote.
C13_Witness ==
  /\ resp.op = "TriggerElection"
  /\ resp.address = self_addr_("n3")
  /\ hb_table[Self][resp.address] # <<>>
  /\ hb_table[Self][resp.address][1].latest_block_id = 0
  /\ hb_table[Self][resp.address][1].mem_pool_size = 1
  /\ getLastID(chain[Self]) = 0
  /\ Len(mempool[Self]) = 1
  /\ resp.vote = TRUE
  /\ voted_for[Self] = resp.address

\* C20: a candidate with no entry in the voter's heartbeat table is weighed
\* as (0, 0): the vote is yes exactly when the voter's getLastID() is below
\* 0, or is 0 with an empty mempool and candidate_address > self_address.
C20_NoEntry ==
  (resp.op = "TriggerElection" /\ hb_table[Self][resp.address] = <<>>) =>
    resp.vote =
      (\/ getLastID(chain[Self]) < 0
       \/ /\ getLastID(chain[Self]) = 0
          /\ Len(mempool[Self]) = 0
          /\ AddrRank(resp.address) > AddrRank(self_addr_(Self)))

\* A voter with an empty chain voted for a smaller address it never heard
\* of, while it holds an audit.
C20_Witness ==
  /\ resp.op = "TriggerElection"
  /\ resp.address = self_addr_("n2")
  /\ hb_table[Self][resp.address] = <<>>
  /\ chain[Self] = <<>>
  /\ Len(mempool[Self]) = 1
  /\ resp.vote = TRUE

\* Every node holds the same figures and every heartbeat entry reports them.
StatsAllEqual ==
  \A n \in Nodes, p \in Nodes :
    /\ getLastID(chain[n]) = getLastID(chain[p])
    /\ Len(mempool[n]) = Len(mempool[p])
    /\ n # p =>
         /\ hb_table[n][self_addr_(p)] # <<>>
         /\ hb_table[n][self_addr_(p)][1].latest_block_id =
              getLastID(chain[p])
         /\ hb_table[n][self_addr_(p)][1].mem_pool_size = Len(mempool[p])

\* C14: when two distinct candidates with identical (blocks, pool) figures
\* have each run a round in a cluster whose figures are all equal, the one
\* with the larger address has a strict majority of yes votes (its own
\* counted) and the one with the smaller address has not.
C14_UniqueWinner ==
  \A c1 \in Nodes, c2 \in Nodes :
    (/\ AddrRank(self_addr_(c2)) > AddrRank(self_addr_(c1))
     /\ StatsAllEqual
     /\ RoundOver(c1) /\ RoundOver(c2))
    => (Wins(c2) /\ ~Wins(c1))

\* The table entry a heartbeat request writes.
EntryOf(req) ==
  [from_address |-> req.from_address,
   current_leader_address |-> req.current_leader_address,
   latest_block_id |-> req.latest_block_id,
   mem_pool_size |-> req.mem_pool_size]

\* C15: SendHeartbeat overwrites the table entry of from_address with the
\* request's values (and no other entry); it changes the leader only when the
\* leader is empty and the incoming current_leader is not, to the incoming
\* current_leader; with a non-empty leader it leaves the leader as it is;
\* and it never changes voted_for, the chain or the mempool.
C15_Heartbeat ==
  /\ [][resp'.op = "SendHeartbeat" =>
          /\ hb_table'[Self][resp'.request.from_address] =
               <<EntryOf(resp'.request)>>
          /\ \A a \in Addrs \ {resp'.request.from_address} :
               hb_table'[Self][a] = hb_table[Self][a]
          /\ leader'[Self] =
               IF /\ leader[Self] = NoAddr
                  /\ resp'.request.current_leader_address # NoAddr
               THEN resp'.request.current_leader_address
               ELSE leader[Self]]_vars
  /\ [][(resp'.op = "SendHeartbeat" \/ hbcall' # hbcall) =>
          /\ leader'[Self] # leader[Self] => resp'.op = "SendHeartbeat"
          /\ voted_for' = voted_for
          /\ chain' = chain
          /\ blockFiles' = blockFiles
          /\ mempool' = mempool]_vars

\* A heartbeat from n3 naming n2 as leader was taken by a node that knew no
\* leader, holds an entry of n2, a block, an audit and a vote.
C15_Witness ==
  /\ resp.op = "SendHeartbeat"
  /\ resp.request.from_address = self_addr_("n3")
  /\ leader[Self] = self_addr_("n2")
  /\ notified[Self] = NoAddr
  /\ hb_table[Self][self_addr_("n2")] # <<>>
  /\ hb_table[Self][self_addr_("n3")] = <<EntryOf(resp.request)>>
  /\ Len(chain[Self]) = 1
  /\ Len(mempool[Self]) = 1
  /\ voted_for[Self] # NoAddr

\* C19: under concurrent SendHeartbeat and NotifyLeadership on one node,
\* once NotifyLeadership(X) has set the leader to a non-empty X the leader is
\* X until the next NotifyLeadership, whatever heartbeat is in progress.
C19_NotifiedLeaderStays ==
  notified[Self] # NoAddr => leader[Self] = notified[Self]

(***************************************************************************)
(* Claims about the mempool's contents over time, checked under SpecPool   *)
(* (C16, C18) and SpecChain (C17).                                         *)
(***************************************************************************)
\* The req_ids a block lists.
BlockReqIds(blk) == {blk.audits[i].req_id : i \in 1..Len(blk.audits)}

\* C16: after any interleaving of SubmitAudit, WhisperAuditRequest and
\* CommitBlock calls a mempool holds at most one entry per req_id, and
\* admitting an audit whose req_id is in the mempool leaves the mempool and
\* its size as they were.
C16_OnePerReqId ==
  /\ [](\A n \in Nodes : Cardinality(PoolIds(mempool[n])) = Len(mempool[n]))
  /\ [][\A n \in Nodes :
          PoolIds(mempool'[n]) = PoolIds(mempool[n]) =>
            mempool'[n] = mempool[n]]_vars

\* Self took r1 from a client, nothing was committed there, and then a
\* peer's gossip of r1 was answered "success": the mempool holds r1 once.
C16_Witness ==
  /\ resp.op = "WhisperAuditRequest"
  /\ resp.code = "OK"
  /\ resp.audit = A1
  /\ submit[Self].request = <<A1>>
  /\ \A i \in BlockIds : acked[Self][i] = <<>>
  /\ mempool[Self] = <<A1>>

\* C17: an audit leaves a node's mempool only by a CommitBlock that lists
\* its req_id and whose metadata was appended to the local index; a
\* CommitBlock whose append is rejected removes nothing.
C17_RemovedByAppendedCommit ==
  [][\A r \in ReqIds :
       (r \in PoolIds(mempool[Self]) /\ r \notin PoolIds(mempool'[Self])) =>
         /\ resp'.op = "CommitBlock"
         /\ r \in BlockReqIds(resp'.block)
         /\ ~AppendRejects(chain[Self], resp'.block)]_vars

\* C18: a req_id goes from absent to present in a node's mempool at most
\* once, so an audit that is committed locally in a block is not admitted to
\* the mempool again by a later submission or gossip.
C18_AdmittedOnce ==
  [][\A r \in ReqIds :
       (\E i \in BlockIds :
           /\ Committed(Self, i)
           /\ r \in BlockReqIds(acked[Self][i][1]))
       => ~(r \notin PoolIds(mempool[Self]) /\ r \in PoolIds(mempool'[Self]))
    ]_vars

====
